---- MODULE Spec2Model ----
(***************************************************************************)
(* A model of keras_unet_collection:                                       *)
(*   - _model_unet_plus_2d.py : unet_plus_2d_backbone, unet_plus_2d        *)
(*   - losses.py              : crps2d_tf, crps2d_np, triplet1d            *)
(*                                                                         *)
(* Tensors are identified by the order in which they are created: the      *)
(* input tensor is 0 and the n-th invocation of a block primitive returns  *)
(* tensor n.  Every invocation is logged in `calls` with the arguments the *)
(* source passes to it.  Python lists are sequences; PyGet reads them with *)
(* Python's 0-based (and negative) indexing.                               *)
(***************************************************************************)
EXTENDS Integers, Sequences, FiniteSets, TLC

\* ---- bounds ----
MaxDepth == 4

FilterVals == {2, 4}
Names == {"xnet", "unet"}

VARIABLES
    entry,              \* the function the caller invoked
    filter_num,         \* argument filter_num
    deep_supervision,   \* argument deep_supervision
    pool,               \* argument pool
    unpool,             \* argument unpool
    name,               \* argument name
    pc,                 \* position in the program
    err,                \* the exception raised, "none" while running
    X,                  \* local X: the current tensor
    X_nest_skip,        \* local X_nest_skip: the nested lists of tensors
    nest_lev,           \* loop variable nest_lev (line 68)
    i,                  \* loop variable i of the loop in progress
    ret,                \* what unet_plus_2d_backbone returned
    calls,              \* log of block-primitive invocations
    OUT_list,           \* local OUT_list of unet_plus_2d
    stdout,             \* what print() wrote, one entry per call
    model,              \* the Model returned by unet_plus_2d
    y_true,             \* argument y_true of a loss function
    y_pred,             \* argument y_pred of a loss function
    N,                  \* argument N of triplet1d
    loc,                \* the local variables of a loss function
    out                 \* the value a loss function returned

vars == <<entry, filter_num, deep_supervision, pool, unpool, name, pc, err, X,
          X_nest_skip, nest_lev, i, ret, calls, OUT_list, stdout, model,
          y_true, y_pred, N, loc, out>>

\* the state of the loss functions, untouched by the model builders
lossvars == <<y_true, y_pred, N, loc, out>>

\* the state of the model builders, untouched by the loss functions
buildvars == <<filter_num, deep_supervision, pool, unpool, name, X, X_nest_skip,
               nest_lev, ret, calls, OUT_list, stdout, model>>

args == <<entry, filter_num, deep_supervision, pool, unpool, name>>

\* ---- Python list helpers ----
InRange(s, k) == (-Len(s) <= k) /\ (k < Len(s))

PyGet(s, k) == IF k < 0 THEN s[Len(s) + k + 1] ELSE s[k + 1]

\* s[:n] for 0 <= n
PyPrefix(s, n) == SubSeq(s, 1, IF n < Len(s) THEN n ELSE Len(s))

\* s[::-1]
PyReverse(s) == [k \in 1..Len(s) |-> s[Len(s) + 1 - k]]

\* X_nest_skip[lev].append(t)
AppendAt(lattice, lev, t) == [lattice EXCEPT ![lev + 1] = Append(@, t)]

StartsWith(s, p) == Len(s) >= Len(p) /\ SubSeq(s, 1, Len(p)) = p

\* all sequences over S of length 0..n
SeqsUpTo(S, n) == UNION {[1..k -> S] : k \in 0..n}

NoRet == [kind |-> "none", tensor |-> -1, list |-> <<>>]
NoModel == [built |-> FALSE, inputs |-> <<>>, outputs |-> <<>>, name |-> ""]

\* the tensor a primitive invoked now returns
NewTensor == Len(calls) + 1

depth_ == Len(filter_num)

Raise(e) ==
    /\ err' = e
    /\ pc' = "raised"

\* ---- names (str.format) ----
DownName(nm, k) == nm \o "_down" \o ToString(k)
\* line 84: 'xnet_{}{}'.format(nest_lev, i)
NestName(nm, lev, k) == "xnet_" \o ToString(lev) \o ToString(k)
SupName(nm, k) == nm \o "_output_sup" \o ToString(k)
OutputName(nm) == nm \o "_output"
ModelName(nm) == nm \o "_model"
SupLine(nm, k) == "\t" \o nm \o "_output_sup" \o ToString(k)
FinalLine(nm) == "\t" \o nm \o "_output_final"
HeaderLine == "----------\ndeep_supervision = True\nnames of output tensors are listed as follows (the last one is the final output):"

\* ---- Init ----
Init ==
    /\ entry \in {"unet_plus_2d_backbone", "unet_plus_2d"}
    /\ filter_num \in SeqsUpTo(FilterVals, MaxDepth)
    /\ deep_supervision \in BOOLEAN
    /\ pool \in BOOLEAN
    /\ unpool \in BOOLEAN
    /\ name \in Names
    /\ pc = IF entry = "unet_plus_2d" THEN "asm_start" ELSE "bb_start"
    /\ err = "none"
    /\ X = 0
    /\ X_nest_skip = <<>>
    /\ nest_lev = 0
    /\ i = 0
    /\ ret = NoRet
    /\ calls = <<>>
    /\ OUT_list = <<>>
    /\ stdout = <<>>
    /\ model = NoModel
    /\ y_true = <<>>
    /\ y_pred = <<>>
    /\ N = 0
    /\ loc = <<>>
    /\ out = <<>>

\* ---- unet_plus_2d_backbone ----

\* lines 52-57: depth_, X = input_tensor, X_nest_skip = [[] for _ in range(depth_)]
Backbone_Alloc ==
    /\ pc = "bb_start"
    /\ X' = 0
    /\ X_nest_skip' = [k \in 1..depth_ |-> <<>>]
    /\ pc' = "down0"
    /\ UNCHANGED <<lossvars, args, err, nest_lev, i, ret, calls, OUT_list, stdout, model>>

\* where the program goes once the encoder loop (line 63) is exhausted
AfterDown == IF 1 < depth_ THEN "nest" ELSE "output"

\* mutant: the encoder loop runs over filter_num instead of filter_num[1:]
DownFilters_All == filter_num

\* line 63: filter_num[1:], the filter numbers of the downsampling blocks
DownFilters == Tail(filter_num)

\* mutant: the first block is built with a fallback width before the empty
\* schedule is noticed, so the failure comes after a primitive was invoked
Backbone_Down0_Late ==
    /\ pc = "down0"
    /\ calls' = Append(calls, [fn |-> "CONV_stack", X |-> X,
                               channel |-> IF InRange(filter_num, 0)
                                           THEN PyGet(filter_num, 0) ELSE 64,
                               name |-> DownName(name, 0),
                               out |-> NewTensor])
    /\ X' = NewTensor
    /\ IF ~InRange(X_nest_skip, 0)
       THEN /\ Raise("IndexError")
            /\ UNCHANGED <<X_nest_skip, i, nest_lev>>
       ELSE /\ X_nest_skip' = AppendAt(X_nest_skip, 0, NewTensor)
            /\ i' = 0
            /\ nest_lev' = 1
            /\ pc' = IF Len(filter_num) > 1 THEN "down"
                     ELSE IF 1 < depth_ THEN "nest" ELSE "output"
            /\ err' = err
    /\ UNCHANGED <<lossvars, args, ret, OUT_list, stdout, model>>

\* lines 60-62: the first encoder block; filter_num[0] is evaluated before the call
Backbone_Down0 ==
    /\ pc = "down0"
    /\ IF ~InRange(filter_num, 0)
       THEN /\ Raise("IndexError")
            /\ UNCHANGED <<lossvars, args, X, X_nest_skip, nest_lev, i, ret, calls,
                           OUT_list, stdout, model>>
       ELSE /\ calls' = Append(calls, [fn |-> "CONV_stack", X |-> X,
                                       channel |-> PyGet(filter_num, 0),
                                       name |-> DownName(name, 0),
                                       out |-> NewTensor])
            /\ X' = NewTensor
            /\ X_nest_skip' = AppendAt(X_nest_skip, 0, NewTensor)
            /\ i' = 0
            /\ nest_lev' = 1
            /\ pc' = IF Len(DownFilters) > 0 THEN "down" ELSE AfterDown
            /\ UNCHANGED <<lossvars, args, err, ret, OUT_list, stdout, model>>

\* lines 63-66: one iteration of `for i, f in enumerate(filter_num[1:])`
Backbone_Down ==
    /\ pc = "down"
    /\ LET f == DownFilters[i + 1] IN
       /\ calls' = Append(calls, [fn |-> "UNET_left", X |-> X, channel |-> f,
                                  pool |-> pool,
                                  name |-> DownName(name, i + 1),
                                  out |-> NewTensor])
       /\ X' = NewTensor
       /\ X_nest_skip' = AppendAt(X_nest_skip, 0, NewTensor)
       /\ IF i + 1 < Len(DownFilters)
          THEN /\ i' = i + 1
               /\ pc' = "down"
          ELSE /\ i' = 0
               /\ pc' = AfterDown
       /\ UNCHANGED <<lossvars, args, err, nest_lev, ret, OUT_list, stdout, model>>

\* line 71: filter_num_sub = filter_num[:(depth_-nest_lev)]
filter_num_sub(lev) == PyPrefix(filter_num, depth_ - lev)

\* line 79: the index read in every previous level
SkipIndex(k) == k

\* mutant: the tensor to upsample is read at i instead of i+1
UpIndex_Same(k) == k

\* line 83: the index of the tensor to upsample in level nest_lev-1
UpIndex(k) == k + 1

\* line 83: the filter number handed to UNET_right
UpChannelIndex(k) == k

\* line 78: range(nest_lev)
PreviousLevels(lev) == 0..(lev - 1)

\* every list read of one iteration of lines 74-84 is inside its list
NestReadsInRange(lev, k) ==
    /\ \A p \in PreviousLevels(lev) :
          /\ InRange(X_nest_skip, p)
          /\ InRange(PyGet(X_nest_skip, p), SkipIndex(k))
    /\ InRange(X_nest_skip, lev - 1)
    /\ InRange(PyGet(X_nest_skip, lev - 1), UpIndex(k))
    /\ InRange(filter_num, UpChannelIndex(k))
    /\ InRange(X_nest_skip, lev)

\* lines 77-79: previous_skip
previous_skip(lev, k) ==
    [p \in 1..Cardinality(PreviousLevels(lev)) |->
        PyGet(PyGet(X_nest_skip, p - 1), SkipIndex(k))]

\* lines 82-84: the UNET_right invocation (unpool and batch_norm are not passed)
UNET_right_call(lev, k) ==
    [fn |-> "UNET_right",
     X |-> PyGet(PyGet(X_nest_skip, lev - 1), UpIndex(k)),
     X_list |-> previous_skip(lev, k),
     channel |-> PyGet(filter_num, UpChannelIndex(k)),
     name |-> NestName(name, lev, k),
     out |-> NewTensor]

\* lines 68-84: one iteration of the inner loop, and the loop bookkeeping
Backbone_Nest ==
    /\ pc = "nest"
    /\ IF ~NestReadsInRange(nest_lev, i)
       THEN /\ Raise("IndexError")
            /\ UNCHANGED <<lossvars, args, X, X_nest_skip, nest_lev, i, ret, calls,
                           OUT_list, stdout, model>>
       ELSE /\ calls' = Append(calls, UNET_right_call(nest_lev, i))
            /\ X_nest_skip' = AppendAt(X_nest_skip, nest_lev, NewTensor)
            /\ IF i + 1 < Len(PyReverse(filter_num_sub(nest_lev)))
               THEN /\ i' = i + 1
                    /\ nest_lev' = nest_lev
                    /\ pc' = "nest"
               ELSE /\ i' = 0
                    /\ nest_lev' = nest_lev + 1
                    /\ pc' = IF nest_lev + 1 < depth_ THEN "nest" ELSE "output"
            /\ UNCHANGED <<lossvars, args, err, X, ret, OUT_list, stdout, model>>

\* lines 89-94: X_list = [X_nest_skip[i][0] for i in range(depth_)]
Backbone_X_list == [k \in 1..depth_ |-> PyGet(PyGet(X_nest_skip, k - 1), 0)]

\* mutant: the first encoder output is returned instead of the last cell
Backbone_Final_First == PyGet(PyGet(X_nest_skip, 0), 0)

\* line 97: X_nest_skip[-1][0]
Backbone_Final == PyGet(PyGet(X_nest_skip, -1), 0)

\* every list read of lines 87-97 is inside its list
OutputReadsInRange ==
    IF deep_supervision
    THEN \A k \in 0..(depth_ - 1) :
            InRange(X_nest_skip, k) /\ InRange(PyGet(X_nest_skip, k), 0)
    ELSE InRange(X_nest_skip, -1) /\ InRange(PyGet(X_nest_skip, -1), 0)

\* lines 86-97: the return statement
Backbone_Return ==
    /\ pc = "output"
    /\ IF ~OutputReadsInRange
       THEN /\ Raise("IndexError")
            /\ UNCHANGED ret
       ELSE /\ ret' = IF deep_supervision
                      THEN [kind |-> "list", tensor |-> -1, list |-> Backbone_X_list]
                      ELSE [kind |-> "tensor", tensor |-> Backbone_Final, list |-> <<>>]
            /\ pc' = IF entry = "unet_plus_2d"
                     THEN (IF deep_supervision THEN "heads_begin" ELSE "head_single")
                     ELSE "done"
            /\ err' = err
    /\ i' = 0
    /\ UNCHANGED <<lossvars, args, X, X_nest_skip, nest_lev, calls, OUT_list, stdout, model>>

\* ---- unet_plus_2d ----

\* lines 141-148: depth_, IN = Input(input_size), then the backbone is entered
Assembler_Input ==
    /\ pc = "asm_start"
    /\ X' = 0
    /\ pc' = "bb_start"
    /\ UNCHANGED <<lossvars, args, err, X_nest_skip, nest_lev, i, ret, calls, OUT_list,
                   stdout, model>>

\* mutant: the loop also covers the last backbone tensor
SupRange_All == 1..(depth_ - 1)

\* line 160: range(1, depth_-1), the backbone tensors that get an `_output_sup` head
SupRange == 1..(depth_ - 2)

\* line 167: the index of the backbone tensor that gets the final head
FinalIndex == -1

\* the CONV_output invocation on tensor t with layer name nm
CONV_output_call(t, nm) ==
    [fn |-> "CONV_output", X |-> t, kernel_size |-> 1, name |-> nm,
     out |-> NewTensor]

\* lines 151-157: X_list = X, OUT_list = [], the header is printed
Assembler_HeadsBegin ==
    /\ pc = "heads_begin"
    /\ OUT_list' = <<>>
    /\ stdout' = Append(stdout, HeaderLine)
    /\ i' = 1
    /\ pc' = IF 1 \in SupRange THEN "head_sup" ELSE "head_final"
    /\ UNCHANGED <<lossvars, args, err, X, X_nest_skip, nest_lev, ret, calls, model>>

\* lines 160-164: one iteration of the loop over the deep-supervision heads
Assembler_HeadSup ==
    /\ pc = "head_sup"
    /\ IF ~InRange(ret.list, i)
       THEN /\ Raise("IndexError")
            /\ stdout' = Append(stdout, SupLine(name, i))
            /\ UNCHANGED <<calls, OUT_list, i>>
       ELSE /\ stdout' = Append(stdout, SupLine(name, i))
            /\ calls' = Append(calls,
                               CONV_output_call(PyGet(ret.list, i), SupName(name, i)))
            /\ OUT_list' = Append(OUT_list, NewTensor)
            /\ i' = i + 1
            /\ pc' = IF (i + 1) \in SupRange THEN "head_sup" ELSE "head_final"
            /\ err' = err
    /\ UNCHANGED <<lossvars, args, X, X_nest_skip, nest_lev, ret, model>>

\* lines 166-167: the final head of the deep-supervision model
Assembler_HeadFinal ==
    /\ pc = "head_final"
    /\ IF ~InRange(ret.list, FinalIndex)
       THEN /\ Raise("IndexError")
            /\ stdout' = Append(stdout, FinalLine(name))
            /\ UNCHANGED <<calls, OUT_list>>
       ELSE /\ stdout' = Append(stdout, FinalLine(name))
            /\ calls' = Append(calls,
                               CONV_output_call(PyGet(ret.list, FinalIndex),
                                                OutputName(name)))
            /\ OUT_list' = Append(OUT_list, NewTensor)
            /\ pc' = "model"
            /\ err' = err
    /\ UNCHANGED <<lossvars, args, X, X_nest_skip, nest_lev, i, ret, model>>

\* lines 169-171: the only head of the model without deep supervision
Assembler_HeadSingle ==
    /\ pc = "head_single"
    /\ calls' = Append(calls, CONV_output_call(ret.tensor, OutputName(name)))
    /\ OUT_list' = <<NewTensor>>
    /\ pc' = "model"
    /\ UNCHANGED <<lossvars, args, err, X, X_nest_skip, nest_lev, i, ret, stdout, model>>

\* lines 173-176: model = Model(inputs=[IN,], outputs=OUT_list, name=...)
Assembler_Model ==
    /\ pc = "model"
    /\ model' = [built |-> TRUE, inputs |-> <<0>>, outputs |-> OUT_list,
                 name |-> ModelName(name)]
    /\ pc' = "done"
    /\ UNCHANGED <<lossvars, args, err, X, X_nest_skip, nest_lev, i, ret, calls, OUT_list,
                   stdout>>

Next ==
    \/ Backbone_Alloc
    \/ Backbone_Down0
    \/ Backbone_Down
    \/ Backbone_Nest
    \/ Backbone_Return
    \/ Assembler_Input
    \/ Assembler_HeadsBegin
    \/ Assembler_HeadSup
    \/ Assembler_HeadFinal
    \/ Assembler_HeadSingle
    \/ Assembler_Model

Spec == Init /\ [][Next]_vars
\* ======================= properties of the builders =======================

\* SkipLattice[lev][pos], read as Python reads X_nest_skip[lev][pos]
At(lev, pos) == PyGet(PyGet(X_nest_skip, lev), pos)

\* the invocation that created tensor t
CallOf(t) == calls[t]

BackboneReturned == ret.kind # "none"

\* the coordinates of the lattice entries present
Cells == {c \in (0..MaxDepth + 1) \X (0..MaxDepth + 1) :
             /\ InRange(X_nest_skip, c[1])
             /\ InRange(PyGet(X_nest_skip, c[1]), c[2])}

\* the invocations of the encoder and decoder primitives
BuildCalls == {k \in DOMAIN calls : calls[k].fn # "CONV_output"}

\* the k-th output head of the model
HeadOf(k) == CallOf(model.outputs[k])

\* the names print() listed: the tab-indented entries, without the tab
ListedNames ==
    LET lines == SelectSeq(stdout, LAMBDA l : StartsWith(l, "\t"))
    IN  [k \in 1..Len(lines) |-> SubSeq(lines[k], 2, Len(lines[k]))]

\* the names of the output heads of the model, in output order
HeadNames == [k \in 1..Len(model.outputs) |-> HeadOf(k).name]

\* C1: for depth >= 1 no list read is out of range, and every cell at
\* (nest_level L >= 1, position j) is UNET_right applied to SkipLattice[L-1][j+1]
\* with the skip list [SkipLattice[p][j] : p = 0..L-1] and width filter_num[j].
C1_CellInputs ==
    /\ (depth_ >= 1) => (err = "none")
    /\ \A c \in Cells :
          (c[1] >= 1) =>
             LET L == c[1]
                 j == c[2]
                 call == CallOf(At(L, j))
             IN  /\ call.fn = "UNET_right"
                 /\ <<L - 1, j + 1>> \in Cells
                 /\ call.X = At(L - 1, j + 1)
                 /\ call.X_list = [p \in 1..L |-> At(p - 1, j)]
                 /\ call.channel = PyGet(filter_num, j)

C1_Witness ==
    /\ BackboneReturned
    /\ depth_ >= 3
    /\ <<2, 0>> \in Cells

\* C2: for depth >= 2, when the backbone has returned, SkipLattice[L] holds
\* exactly depth - L entries for every L in 0..depth-1, and every coordinate
\* was filled by one invocation of its own.
C2_LatticeShape ==
    (BackboneReturned /\ depth_ >= 2) =>
       /\ Len(X_nest_skip) = depth_
       /\ \A L \in 0..(depth_ - 1) : Len(PyGet(X_nest_skip, L)) = depth_ - L
       /\ Len(PyGet(X_nest_skip, depth_ - 1)) = 1
       /\ \A c, d \in Cells : (At(c[1], c[2]) = At(d[1], d[2])) => (c = d)
       /\ {At(c[1], c[2]) : c \in Cells} = BuildCalls

C2_Witness ==
    /\ BackboneReturned
    /\ depth_ >= 3
    /\ Len(PyGet(X_nest_skip, 1)) = depth_ - 1

\* C3: with deep_supervision the backbone returns the list of the depth tensors
\* SkipLattice[i][0], entry 0 being the first encoder output; without it the
\* backbone returns SkipLattice[depth-1][0], which in both modes is the last
\* tensor the backbone built (tensor number depth*(depth+1)/2).
C3_BackboneOutput ==
    BackboneReturned =>
       /\ At(depth_ - 1, 0) = (depth_ * (depth_ + 1)) \div 2
       /\ IF deep_supervision
          THEN /\ ret.kind = "list"
               /\ Len(ret.list) = depth_
               /\ \A k \in 0..(depth_ - 1) : PyGet(ret.list, k) = At(k, 0)
               /\ CallOf(PyGet(ret.list, 0)).fn = "CONV_stack"
               /\ PyGet(ret.list, -1) = At(depth_ - 1, 0)
          ELSE /\ ret.kind = "tensor"
               /\ ret.tensor = At(depth_ - 1, 0)

C3_Witness ==
    /\ BackboneReturned
    /\ deep_supervision
    /\ depth_ >= 3
    /\ Len(ret.list) = depth_

\* the model without deep supervision has one output, the head on the backbone tensor
SingleHead ==
    /\ Len(model.outputs) = 1
    /\ HeadOf(1).fn = "CONV_output"
    /\ HeadOf(1).X = ret.tensor

\* depth-1 heads, on the backbone tensors 1..depth-1 in this order, none on tensor 0
DeepHeads ==
    /\ Len(model.outputs) = depth_ - 1
    /\ \A k \in 1..(depth_ - 1) :
          /\ HeadOf(k).fn = "CONV_output"
          /\ HeadOf(k).X = PyGet(ret.list, k)
    /\ \A k \in DOMAIN calls :
          (calls[k].fn = "CONV_output") => (calls[k].X # PyGet(ret.list, 0))

\* C4 (as claimed): for every depth >= 1 the deep-supervision model has exactly
\* depth-1 outputs, heads on backbone tensors 1..depth-1 in order and none on
\* backbone tensor 0; without deep supervision it has the single head.
C4_Original ==
    (pc = "done" /\ model.built) =>
       IF deep_supervision THEN DeepHeads ELSE SingleHead

\* C4 (amended): the above for depth >= 2; for depth 1 the deep-supervision
\* model has exactly one output, the final head on backbone tensor 0.
C4_Heads ==
    (pc = "done" /\ model.built) =>
       IF ~deep_supervision THEN SingleHead
       ELSE IF depth_ >= 2 THEN DeepHeads
       ELSE /\ Len(model.outputs) = 1
            /\ HeadOf(1).fn = "CONV_output"
            /\ HeadOf(1).X = PyGet(ret.list, 0)

C4_Witness ==
    /\ pc = "done"
    /\ model.built
    /\ deep_supervision
    /\ depth_ >= 3
    /\ Len(model.outputs) = depth_ - 1

\* C5 (as claimed): every UNET_right invocation of the decoder pass is given the
\* caller's unpool.
C5_Original ==
    \A k \in DOMAIN calls :
       (calls[k].fn = "UNET_right") =>
          /\ "unpool" \in DOMAIN calls[k]
          /\ calls[k].unpool = unpool

\* C6 (as claimed): with deep supervision and depth >= 2, the names listed by
\* print() are, in order, the names of the output heads of the model.
C6_Original ==
    (pc = "done" /\ model.built /\ deep_supervision /\ depth_ >= 2) =>
       (ListedNames = HeadNames)

\* C7 (as claimed): every encoder block, decoder block and output head is
\* created with a name that starts with the caller's `name`.
C7_Original ==
    \A k \in DOMAIN calls : StartsWith(calls[k].name, name)

\* nothing has been built, appended or returned
NothingBuilt ==
    /\ calls = <<>>
    /\ \A k \in DOMAIN X_nest_skip : X_nest_skip[k] = <<>>
    /\ ret = NoRet
    /\ ~model.built

\* C8 (as claimed): an empty filter schedule fails with a ConfigurationError
\* before any primitive is invoked, any entry appended or anything returned.
C8_Original ==
    (depth_ = 0 /\ pc = "raised") =>
       /\ err = "ConfigurationError"
       /\ NothingBuilt

\* C8 (amended): an empty filter schedule fails with Python's IndexError, raised
\* by filter_num[0] before any primitive is invoked, any entry appended or
\* anything returned; the build never gets past that point.
C8_EmptySchedule ==
    (depth_ = 0) =>
       /\ pc \in {"asm_start", "bb_start", "down0", "raised"}
       /\ (pc = "raised") => (err = "IndexError")
       /\ NothingBuilt

C8_Witness ==
    /\ depth_ = 0
    /\ pc = "raised"
    /\ err = "IndexError"
\* ============================== losses.py ==============================

\* ---- bounds of the loss inputs ----
MaxBatch == 2
MaxN == 2
MaxX == 2
MaxY == 2

\* line 94: margin=5.0
Margin == 5

EmbedVals == {0, 3}
PixelVals == {0, 1}

Max(a, b) == IF a > b THEN a ELSE b
Min(a, b) == IF a < b THEN a ELSE b

RECURSIVE SumSeq(_)
SumSeq(s) == IF s = <<>> THEN 0 ELSE Head(s) + SumSeq(Tail(s))

RECURSIVE ProdSeq(_)
ProdSeq(s) == IF s = <<>> THEN 1 ELSE Head(s) * ProdSeq(Tail(s))

Abs(a) == IF a < 0 THEN -a ELSE a

\* ---- triplet1d ----

\* row[a:b] with 0 <= a, b: Python clips a slice to the list
PySlice(row, a, b) == SubSeq(row, Min(a, Len(row)) + 1, Min(b, Len(row)))

\* y_pred[:, a:b]
Columns(m, a, b) == [r \in 1..Len(m) |-> PySlice(m[r], a, b)]

\* the width of the last axis of a (batch, width) array
Width(m) == Len(m[1])

\* the widths w1 and w2 of two last axes broadcast against each other
Broadcastable(w1, w2) == (w1 = w2) \/ (w1 = 1) \/ (w2 = 1)

BroadcastWidth(w1, w2) == IF w1 = 1 THEN w2 ELSE w1

\* a - b for two rows, a width-1 row being repeated along the other's width
RowMinus(a, b) ==
    [k \in 1..BroadcastWidth(Len(a), Len(b)) |->
        a[IF Len(a) = 1 THEN 1 ELSE k] - b[IF Len(b) = 1 THEN 1 ELSE k]]

\* tf.reduce_sum(tf.square(a - b), 1)
SquaredDistance(a, b) ==
    [r \in 1..Len(a) |->
        SumSeq([k \in 1..Len(RowMinus(a[r], b[r])) |->
                   RowMinus(a[r], b[r])[k] * RowMinus(a[r], b[r])[k]])]

Init_Triplet ==
    /\ entry = "triplet1d"
    /\ N \in 1..MaxN
    /\ \E b \in 1..MaxBatch, w \in 1..(3 * MaxN + 1) :
          y_pred \in [1..b -> [1..w -> EmbedVals]]
    /\ y_true = <<>>
    /\ loc = <<>>
    /\ out = <<>>
    /\ pc = "t_slice"
    /\ err = "none"
    /\ i = 0
    /\ filter_num = <<>>
    /\ deep_supervision = FALSE
    /\ pool = FALSE
    /\ unpool = FALSE
    /\ name = ""
    /\ X = 0
    /\ X_nest_skip = <<>>
    /\ nest_lev = 0
    /\ ret = NoRet
    /\ calls = <<>>
    /\ OUT_list = <<>>
    /\ stdout = <<>>
    /\ model = NoModel

\* lines 109-111: the three slices of y_pred
Triplet_Slice ==
    /\ pc = "t_slice"
    /\ loc' = [Embd_anchor |-> Columns(y_pred, 0, N),
               Embd_pos |-> Columns(y_pred, N, 2 * N),
               Embd_neg |-> Columns(y_pred, 2 * N, Width(y_pred))]
    /\ pc' = "t_dist"
    /\ UNCHANGED <<buildvars, entry, y_true, y_pred, N, out, err, i>>

\* lines 113-114: d_pos and d_neg; a subtraction of incompatible widths is
\* TensorFlow's shape error (InvalidArgumentError eagerly, ValueError in a graph)
Triplet_Distance ==
    /\ pc = "t_dist"
    /\ IF /\ Broadcastable(Width(loc.Embd_anchor), Width(loc.Embd_pos))
          /\ Broadcastable(Width(loc.Embd_anchor), Width(loc.Embd_neg))
       THEN /\ loc' = [Embd_anchor |-> loc.Embd_anchor,
                       Embd_pos |-> loc.Embd_pos,
                       Embd_neg |-> loc.Embd_neg,
                       d_pos |-> SquaredDistance(loc.Embd_anchor, loc.Embd_pos),
                       d_neg |-> SquaredDistance(loc.Embd_anchor, loc.Embd_neg)]
            /\ pc' = "t_loss"
            /\ err' = err
       ELSE /\ err' \in {"InvalidArgumentError", "ValueError"}
            /\ pc' = "raised"
            /\ loc' = loc
    /\ UNCHANGED <<buildvars, entry, y_true, y_pred, N, out, i>>

\* lines 115-118: loss = reduce_mean(maximum(0., margin + d_pos - d_neg)),
\* kept as the exact fraction num/den
Triplet_Loss ==
    /\ pc = "t_loss"
    /\ out' = [num |-> SumSeq([r \in 1..Len(loc.d_pos) |->
                                  Max(0, Margin + loc.d_pos[r] - loc.d_neg[r])]),
               den |-> Len(loc.d_pos)]
    /\ pc' = "done"
    /\ UNCHANGED <<buildvars, entry, y_true, y_pred, N, loc, err, i>>

Next_Triplet ==
    \/ Triplet_Slice
    \/ Triplet_Distance
    \/ Triplet_Loss

Spec_Triplet == Init_Triplet /\ [][Next_Triplet]_vars

\* C9 (as claimed): for a y_pred whose last axis is not 3*N wide, triplet1d
\* fails; it never returns a loss value.
C9_Original ==
    (entry = "triplet1d" /\ Width(y_pred) # 3 * N /\ pc \in {"done", "raised"}) =>
       (pc = "raised" /\ out = <<>>)

\* ---- crps2d_tf, crps2d_np ----

\* tf.squeeze / np.squeeze: every axis of size 1 is removed
Squeeze(t) == [shape |-> SelectSeq(t.shape, LAMBDA d : d # 1), data |-> t.data]

\* t[k, ...] of a tensor with at least one axis, k counted from 0
Slice(t, k) ==
    LET inner == Tail(t.shape)
        size == ProdSeq(inner)
    IN  [shape |-> inner, data |-> SubSeq(t.data, k * size + 1, (k + 1) * size)]

\* lines 19-23 and 70-73: mae - factor*dist, kept as the sums that determine the
\* mean absolute error and the standard deviation (n elements)
Crps_Core(yt, yp) ==
    [n |-> Len(yp.data),
     abs_sum |-> SumSeq([k \in 1..Len(yp.data) |-> Abs(yp.data[k] - yt.data[k])]),
     sum |-> SumSeq(yp.data),
     sq_sum |-> SumSeq([k \in 1..Len(yp.data) |-> yp.data[k] * yp.data[k]])]

Init_Crps ==
    /\ entry \in {"crps2d_tf", "crps2d_np"}
    /\ \E b \in 1..MaxBatch, x \in 1..MaxX, y \in 1..MaxY :
          /\ y_pred \in [shape : {<<b, x, y, 1>>}, data : [1..(b * x * y) -> PixelVals]]
          /\ \E c \in PixelVals :
                y_true = [shape |-> <<b, x, y, 1>>, data |-> [k \in 1..(b * x * y) |-> c]]
    /\ N = 0
    /\ loc = <<>>
    /\ out = <<>>
    /\ pc = "c_squeeze"
    /\ err = "none"
    /\ i = 0
    /\ filter_num = <<>>
    /\ deep_supervision = FALSE
    /\ pool = FALSE
    /\ unpool = FALSE
    /\ name = ""
    /\ X = 0
    /\ X_nest_skip = <<>>
    /\ nest_lev = 0
    /\ ret = NoRet
    /\ calls = <<>>
    /\ OUT_list = <<>>
    /\ stdout = <<>>
    /\ model = NoModel

\* lines 48-56 and 83-88: squeeze both, batch_num = size of the first axis left.
\* With no axis left, as_list()[0] is an IndexError and len() a TypeError.
Crps_Squeeze ==
    /\ pc = "c_squeeze"
    /\ IF Squeeze(y_pred).shape = <<>>
       THEN /\ Raise(IF entry = "crps2d_tf" THEN "IndexError" ELSE "TypeError")
            /\ loc' = loc
       ELSE /\ loc' = [y_true |-> Squeeze(y_true),
                       y_pred |-> Squeeze(y_pred),
                       batch_num |-> Squeeze(y_pred).shape[1],
                       crps_out |-> <<>>,
                       evals |-> <<>>]
            /\ pc' = "c_loop"
            /\ err' = err
    /\ i' = 0
    /\ UNCHANGED <<buildvars, entry, y_true, y_pred, N, out>>

\* lines 57-58 and 89-90: one iteration of `for i in range(batch_num)`
Crps_Iter ==
    /\ pc = "c_loop"
    /\ LET yt == Slice(loc.y_true, i)
           yp == Slice(loc.y_pred, i)
       IN  loc' = [loc EXCEPT !.crps_out = Append(@, Crps_Core(yt, yp)),
                              !.evals = Append(@, [y_true |-> yt.data,
                                                   y_pred |-> yp.data])]
    /\ i' = i + 1
    /\ pc' = IF i + 1 < loc.batch_num THEN "c_loop" ELSE "c_return"
    /\ UNCHANGED <<buildvars, entry, y_true, y_pred, N, out, err>>

\* lines 60 and 92: return crps_out/batch_num, the sum kept as its terms
Crps_Return ==
    /\ pc = "c_return"
    /\ out' = [terms |-> loc.crps_out, div |-> loc.batch_num]
    /\ pc' = "done"
    /\ UNCHANGED <<buildvars, entry, y_true, y_pred, N, loc, err, i>>

Next_Crps ==
    \/ Crps_Squeeze
    \/ Crps_Iter
    \/ Crps_Return

Spec_Crps == Init_Crps /\ [][Next_Crps]_vars

\* sample k (from 1) of a (batch_num, x, y, 1) tensor: its slice along the batch axis
Sample(t, k) ==
    LET size == ProdSeq(Tail(t.shape))
    IN  [shape |-> Tail(t.shape),
         data |-> SubSeq(t.data, (k - 1) * size + 1, k * size)]

\* C10 (as claimed): crps2d returns the mean over the batch of the per-sample
\* core score: the core is evaluated batch_num times, the i-th time on sample i,
\* and the sum is divided by batch_num.
C10_Original ==
    (entry \in {"crps2d_tf", "crps2d_np"} /\ pc = "done") =>
       LET B == y_pred.shape[1] IN
       /\ out.div = B
       /\ Len(loc.evals) = B
       /\ \A k \in 1..B :
             /\ loc.evals[k].y_true = Sample(y_true, k).data
             /\ loc.evals[k].y_pred = Sample(y_pred, k).data
       /\ out.terms = [k \in 1..B |-> Crps_Core(Sample(y_true, k), Sample(y_pred, k))]
====
